---- MODULE Spec2Model ----
(***************************************************************************)
(* google-photos-backup: a one-shot batch tool that moves every file of a  *)
(* Google Drive folder to S3 and deletes the Drive copy once the upload is *)
(* confirmed.                                                              *)
(*                                                                         *)
(* Two state machines are modelled:                                        *)
(*   Spec      main() of src/main.rs together with DriveClient             *)
(*             (src/drive.rs) and S3Uploader::upload (src/aws.rs);         *)
(*   AuthSpec  load_or_authenticate() of src/auth.rs and everything it     *)
(*             calls.                                                      *)
(* Each await on the network or on the file system is one action; what the *)
(* outside world answers is the action's input.                            *)
(***************************************************************************)
EXTENDS Integers, Sequences, FiniteSets, TLC

(***************************************************************************)
(* Bounds of the model.                                                    *)
(***************************************************************************)
\* Largest number of entries the Drive folder holds.
MaxFiles == 2
\* Largest number of bytes a download stream yields.
MaxBytes == 2

(***************************************************************************)
(* drive.rs: DriveFile and the Workspace partition.                        *)
(***************************************************************************)
WORKSPACE_MIMETYPES ==
    { "application/vnd.google-apps.document",
      "application/vnd.google-apps.spreadsheet",
      "application/vnd.google-apps.presentation",
      "application/vnd.google-apps.drawing",
      "application/vnd.google-apps.form",
      "application/vnd.google-apps.map",
      "application/vnd.google-apps.site" }

\* Content kinds the listing may report: one native-document kind and one
\* plain binary kind.
MimeTypes ==
    { "application/vnd.google-apps.document",
      "image/jpeg" }

\* DriveFile.size is Option<String>: a decimal byte count, or NoSize when it
\* is absent (a string that does not parse as u64 is treated like an absent
\* one by every reader of the field, so NoSize stands for it too).
NoSize == 0 - 1
Sizes == {NoSize, 1}

\* File names are sequences of characters; "NUL" stands for '\0'.
Names == { <<"a">>, <<"/">>, <<"_">> }

DriveFile == [id : 1..(MaxFiles + 1), name : Names, mime_type : MimeTypes, size : Sizes]

is_workspace_file_never(f) == FALSE

is_workspace_file(f) == f.mime_type \in WORKSPACE_MIMETYPES

\* file.size.as_deref().and_then(|s| s.parse::<u64>().ok()): Some(n) is n,
\* None is NoSize.
expected_size(f) == IF f.size >= 0 THEN f.size ELSE NoSize

\* Vec::partition keeps the listing order in both halves.
RECURSIVE SelectSeqBy(_, _)
SelectSeqBy(s, keep) ==
    IF s = <<>> THEN <<>>
    ELSE IF keep[Head(s).id] THEN <<Head(s)>> \o SelectSeqBy(Tail(s), keep)
         ELSE SelectSeqBy(Tail(s), keep)

partition_workspace(all) ==
    SelectSeqBy(all, [k \in 1..(MaxFiles + 1) |->
        \E j \in 1..Len(all) : all[j].id = k /\ is_workspace_file(all[j])])

partition_files(all) ==
    SelectSeqBy(all, [k \in 1..(MaxFiles + 1) |->
        \E j \in 1..Len(all) : all[j].id = k /\ ~is_workspace_file(all[j])])

(***************************************************************************)
(* main.rs: the sanitized name, local path and storage key of a file.      *)
(***************************************************************************)
sanitize_char_slash_only(c) == IF c = "/" THEN "_" ELSE c

\* line 95: matches!(c, '/' | '\\' | '\0') maps to '_', any other char to itself.
sanitize_char(c) == IF c \in {"/", "\\", "NUL"} THEN "_" ELSE c

safe_name(name) == [k \in 1..Len(name) |-> sanitize_char(name[k])]

\* tmp_dir.path().join(&safe_name): the path is identified by the safe name.
tmp_path(f) == safe_name(f.name)

\* format!("{date_prefix}/{safe_name}"): date_prefix is fixed for the run,
\* so the key is identified by the safe name.
s3_key(f) == safe_name(f.name)

SafeNames == { safe_name(n) : n \in Names }

Absent == 0 - 1
NoObject == [id |-> 0, bytes |-> Absent]

(***************************************************************************)
(* auth.rs: Token, the files it is kept in, and the token endpoint's       *)
(* answers.                                                                *)
(***************************************************************************)
\* Largest number of seconds one await (a request, a file operation) takes.
MaxDelay == 1

Delays == 0..MaxDelay

\* Token::is_expired: the safety margin before the literal expiry.
MARGIN_SECS == 60

\* parse_token_response: expires_in when the provider omits it.
DEFAULT_EXPIRES_IN == 3600

NoToken == [access_token |-> "NONE", refresh_token |-> "NONE", expiry |-> 0]

\* A file: nothing there ("none"), there but read_to_string fails
\* ("unreadable"), text that is no Token ("garbage"), or a serialized Token.
NoFile == [kind |-> "none", token |-> NoToken, mode |-> "none"]

TokenFile(t, mode) == [kind |-> "token", token |-> t, mode |-> mode]

\* Expiry of the persisted record when the call starts (now = 0): long past,
\* exactly at the margin, one second beyond it, and an hour ahead.
PersistedExpiries == {0 - 100, MARGIN_SECS, MARGIN_SECS + 1, DEFAULT_EXPIRES_IN}

TokenFiles ==
    { NoFile,
      [kind |-> "unreadable", token |-> NoToken, mode |-> "0600"],
      [kind |-> "garbage", token |-> NoToken, mode |-> "0600"] }
    \cup { TokenFile([access_token |-> "at0", refresh_token |-> "rt0", expiry |-> e],
                     "0600") : e \in PersistedExpiries }

CredsFiles == {"ok", "unreadable", "malformed"}

is_expired_without_margin(t, clock) == clock >= t.expiry

is_expired_inverted(t, clock) == clock <= t.expiry - MARGIN_SECS

\* Token::is_expired, with Utc::now() = clock.
is_expired(t, clock) == clock >= t.expiry - MARGIN_SECS

\* What the token endpoint answers: the request fails ("net_err": send() or
\* json() returns Err), or a JSON value, of which parse_token_response
\* reads four members.  "NONE" is a member that is missing or not a string;
\* NoExpiresIn is an expires_in that is missing or not an integer.
NoExpiresIn == 0 - 1000000

ExpiresIns == {NoExpiresIn, 30, MARGIN_SECS, MARGIN_SECS + 1, DEFAULT_EXPIRES_IN}

Responses ==
    { r \in [kind : {"net_err", "json"}, error : {"NONE", "invalid_grant"},
             access_token : {"NONE", "at1"}, refresh_token : {"NONE", "rt1"},
             expires_in : ExpiresIns] :
        r.kind = "net_err" =>
            /\ r.error = "NONE" /\ r.access_token = "NONE"
            /\ r.refresh_token = "NONE" /\ r.expires_in = NoExpiresIn }

NoResponse ==
    [kind |-> "none", error |-> "NONE", access_token |-> "NONE",
     refresh_token |-> "NONE", expires_in |-> NoExpiresIn]

Failure(kind) == [ok |-> FALSE, err |-> kind, token |-> NoToken]

Success(t) == [ok |-> TRUE, err |-> "none", token |-> t]

expires_in_default_zero(resp) ==
    IF resp.expires_in = NoExpiresIn THEN 0 ELSE resp.expires_in

\* line 192: resp["expires_in"].as_i64().unwrap_or(3600)
expires_in(resp) ==
    IF resp.expires_in = NoExpiresIn THEN DEFAULT_EXPIRES_IN ELSE resp.expires_in

refresh_token_of_prefers_existing(resp, existing_refresh) ==
    IF existing_refresh # "NONE" THEN existing_refresh ELSE resp.refresh_token

\* lines 187-191: the response's refresh_token, else the existing one.
refresh_token_of(resp, existing_refresh) ==
    IF resp.refresh_token # "NONE" THEN resp.refresh_token ELSE existing_refresh

\* parse_token_response(resp, existing_refresh), with Utc::now() = clock;
\* existing_refresh = "NONE" is None.
parse_token_response(resp, existing_refresh, clock) ==
    IF resp.error # "NONE" THEN Failure("TokenError")
    ELSE IF resp.access_token = "NONE" THEN Failure("MissingAccessToken")
    ELSE IF refresh_token_of(resp, existing_refresh) = "NONE"
         THEN Failure("MissingRefreshToken")
    ELSE Success([access_token |-> resp.access_token,
                  refresh_token |-> refresh_token_of(resp, existing_refresh),
                  expiry |-> clock + expires_in(resp)])

\* do_refresh: the request, then parse_token_response(resp, Some(old)).
do_refresh(resp, old, clock) ==
    IF resp.kind = "net_err" THEN Failure("Network")
    ELSE parse_token_response(resp, old.refresh_token, clock)

\* exchange_code: the request, then parse_token_response(resp, None).
exchange_code(resp, clock) ==
    IF resp.kind = "net_err" THEN Failure("Network")
    ELSE parse_token_response(resp, "NONE", clock)

\* load_creds: read_to_string and serde_json::from_str both succeed.
load_creds(cf) == cf = "ok"

\* browser_flow: the state values a redirect may carry.  "ABSENT" is a query
\* string without a state (or code) parameter.
States == {"uuid-1", "uuid-2"}

Requests ==
    { q \in [kind : {"malformed", "get"}, state : {"ABSENT", ""} \cup States,
             code : {"ABSENT", "code-1"}] :
        q.kind = "malformed" => q.state = "ABSENT" /\ q.code = "ABSENT" }

NoRequest == [kind |-> "none", state |-> "ABSENT", code |-> "ABSENT"]

\* lines 122-125: params.get("state").map(..).unwrap_or_default()
returned_state(q) == IF q.state = "ABSENT" THEN "" ELSE q.state

state_mismatch_unless_absent(returned, generated) ==
    returned # "" /\ returned # generated

\* line 126: returned_state != state
state_mismatch(returned, generated) == returned # generated

(***************************************************************************)
(* State.                                                                  *)
(***************************************************************************)
VARIABLES
    pc,           \* main's position
    exit_code,    \* process exit status, -1 while running
    folder,       \* entries of the Drive folder "Takeout", in listing order
    remote,       \* ids of the entries still present on Drive
    all_files,    \* list_files: entries accumulated so far
    files,        \* main: the transferable half of the partition
    workspace,    \* main: the Workspace half of the partition
    i,            \* main: the loop index (1-based)
    total, uploaded, failed, not_deleted,   \* main: the counters
    tmp,          \* the temp directory: safe name -> bytes stored, or Absent
    s3,           \* the bucket: key -> object stored, or NoObject
    dl, up, del,  \* per file id: calls made of download/upload/delete, results
    outcome,      \* per file id: how its pipeline ended
    tmp_at_end    \* per file id: content of its tmp_path when its pipeline ended

\* load_or_authenticate (auth.rs)
VARIABLES
    apc,          \* position inside load_or_authenticate
    now,          \* Utc::now(), in seconds
    token_file,   \* the file at token_path
    token_tmp,    \* the file at "{token_path}.tmp"
    creds_file,   \* the file at creds_path: "ok", "unreadable" or "malformed"
    token,        \* the Token in hand (parsed, refreshed or exchanged)
    state,        \* browser_flow: the state generated for this attempt
    callback,     \* browser_flow: the redirect request received
    result,       \* the call's result: how it returned, through which path
    hist          \* what the call has done so far

pvars == << pc, exit_code, folder, remote, all_files, files, workspace, i,
            total, uploaded, failed, not_deleted, tmp, s3, dl, up, del,
            outcome, tmp_at_end >>

avars == << apc, now, token_file, token_tmp, creds_file, token, state,
            callback, result, hist >>

vars == << pvars, avars >>

Ids == 1..MaxFiles

FileAttrs == { a \in [name : Names, mime_type : MimeTypes, size : Sizes] :
                 \* "Absent for Google Workspace native files" (drive.rs:28)
                 a.mime_type \in WORKSPACE_MIMETYPES => a.size = NoSize }

Listings ==
    UNION { { [k \in 1..n |-> [id |-> k, name |-> a[k].name,
                               mime_type |-> a[k].mime_type, size |-> a[k].size]] :
              a \in [1..n -> FileAttrs] } : n \in 0..MaxFiles }

NoCall == [calls |-> 0, kind |-> "none", bytes |-> 0, result |-> "none"]

NoResult == [how |-> "none", via |-> "none", stage |-> "none", err |-> "none"]

NoHistory ==
    [ token_file0 |-> NoFile,   \* the persisted record when the call started
      refresh |-> "none",       \* the refresh attempt: "none", "Ok" or its error
      full_auth |-> 0,          \* times full authentication was entered
      accepts |-> 0,            \* redirects accepted
      exchanges |-> 0,          \* exchange_code calls
      requests |-> 0,           \* requests sent to the token endpoint
      creds_reads |-> 0,        \* load_creds calls
      renames |-> 0,            \* renames onto token_path
      issued_at |-> 0,          \* Utc::now() when token was built
      reported |-> NoExpiresIn, \* the expires_in of the response it was built from
      checked_at |-> 0,         \* Utc::now() when is_expired was evaluated
      resp |-> NoResponse ]     \* the last answer of the token endpoint

\* main() before line 30, over the folder `listing`.
PipelineStart(listing) ==
    /\ pc = "auth"
    /\ exit_code = 0 - 1
    /\ folder = listing
    /\ remote = { listing[k].id : k \in 1..Len(listing) }
    /\ all_files = <<>>
    /\ files = <<>>
    /\ workspace = <<>>
    /\ i = 0
    /\ total = 0 /\ uploaded = 0 /\ failed = 0 /\ not_deleted = 0
    /\ tmp = [p \in SafeNames |-> Absent]
    /\ s3 = [p \in SafeNames |-> NoObject]
    /\ dl = [k \in Ids |-> NoCall]
    /\ up = [k \in Ids |-> NoCall]
    /\ del = [k \in Ids |-> NoCall]
    /\ outcome = [k \in Ids |-> "Pending"]
    /\ tmp_at_end = [k \in Ids |-> Absent]

\* load_or_authenticate when it is called, the disk holding tf and cf.
AuthStart(tf, cf) ==
    /\ apc = "start"
    /\ now = 0
    /\ token_file = tf
    /\ token_tmp = NoFile
    /\ creds_file = cf
    /\ token = NoToken
    /\ state = "none"
    /\ callback = NoRequest
    /\ result = NoResult
    /\ hist = [NoHistory EXCEPT !.token_file0 = tf]

Init ==
    /\ \E listing \in Listings : PipelineStart(listing)
    /\ AuthStart(NoFile, "ok")

(***************************************************************************)
(* drive.rs: DriveClient::download.  What the network and the disk do is   *)
(* the outcome o:                                                          *)
(*   send_err    send() or error_for_status() fails (lines 135-142)        *)
(*   create_err  File::create fails (line 148)                             *)
(*   stream_err  response.chunk(), write_all or flush fails with o.bytes   *)
(*               bytes in the file (lines 150, 153, 155)                   *)
(*   eof         the stream ends after yielding o.bytes bytes, all of them *)
(*               written and flushed                                       *)
(***************************************************************************)
DownloadOutcomes ==
    { o \in [kind : {"send_err", "create_err", "stream_err", "eof"},
             bytes : 0..MaxBytes] :
        o.kind \in {"send_err", "create_err"} => o.bytes = 0 }

size_mismatch_ignored(f, bytes_written) == FALSE

\* lines 159-160: a size was reported and differs from the bytes written.
size_mismatch(f, bytes_written) ==
    /\ expected_size(f) # NoSize
    /\ bytes_written # expected_size(f)

download_result(f, o) ==
    IF o.kind = "eof" /\ ~size_mismatch(f, o.bytes) THEN "Ok" ELSE "Err"

\* Content of dest after the call, cur being its content before: an early
\* error leaves it alone, File::create truncates it, every chunk is
\* appended, and only the size check removes it again (line 162).
download_dest(f, o, cur) ==
    IF o.kind \in {"send_err", "create_err"} THEN cur
    ELSE IF o.kind = "eof" /\ size_mismatch(f, o.bytes) THEN Absent
    ELSE o.bytes

(***************************************************************************)
(* aws.rs: S3Uploader::upload.  ByteStream::from_path fails when the file  *)
(* is not there; otherwise put_object answers r.                           *)
(***************************************************************************)
upload_result(content, r) == IF content = Absent THEN "Err" ELSE r

upload_bucket(bucket, key, f, content, res) ==
    IF res = "Ok" THEN [bucket EXCEPT ![key] = [id |-> f.id, bytes |-> content]]
    ELSE bucket

(***************************************************************************)
(* main.rs: the steps before the loop (lines 30-66).                       *)
(***************************************************************************)
Abort ==
    /\ pc' = "aborted"
    /\ exit_code' = 1

\* line 31: auth::load_or_authenticate(...).await?  (AuthSpec has its steps)
Authenticate ==
    /\ pc = "auth"
    /\ \E r \in {"Ok", "Err"} :
         IF r = "Ok" THEN pc' = "find_folder" /\ UNCHANGED exit_code ELSE Abort
    /\ UNCHANGED << folder, remote, all_files, files, workspace, i, total,
                    uploaded, failed, not_deleted, tmp, s3, dl, up, del,
                    outcome, tmp_at_end >>
    /\ UNCHANGED avars

\* line 36 and drive.rs:46-83: an error, or zero folders of that name, ends
\* the run; with several the first is used.
FindFolder ==
    /\ pc = "find_folder"
    /\ \E r \in {"err", "none", "one", "many"} :
         IF r \in {"one", "many"} THEN pc' = "list" /\ UNCHANGED exit_code ELSE Abort
    /\ UNCHANGED << folder, remote, all_files, files, workspace, i, total,
                    uploaded, failed, not_deleted, tmp, s3, dl, up, del,
                    outcome, tmp_at_end >>
    /\ UNCHANGED avars

\* drive.rs:126: resp.next_page_token, which the service sends while entries
\* of the folder remain beyond the `got` already returned.
next_page_token(got, n) == IF got < n THEN "more" ELSE "NONE"

list_files_stops_always(page_token) == TRUE

\* drive.rs:127-129: if page_token.is_none() { break; }
list_files_stops(page_token) == page_token = "NONE"

\* line 39 and drive.rs:96-129: one request of list_files' loop.  The page
\* holds the next k entries; nextPageToken is present while entries remain.
\* After the last page main partitions the listing (lines 41-42).
ListPage ==
    /\ pc = "list"
    /\ \E r \in {"Ok", "Err"} :
         IF r = "Err"
         THEN /\ Abort
              /\ UNCHANGED << all_files, files, workspace >>
         ELSE \E k \in 0..(Len(folder) - Len(all_files)) :
              /\ k = 0 => Len(all_files) = Len(folder)
              /\ LET all == all_files \o
                            SubSeq(folder, Len(all_files) + 1, Len(all_files) + k)
                 IN /\ all_files' = all
                    /\ IF list_files_stops(next_page_token(Len(all), Len(folder)))
                       THEN /\ workspace' = partition_workspace(all)
                            /\ files' = partition_files(all)
                            /\ pc' = "s3new"
                       ELSE /\ UNCHANGED << files, workspace >>
                            /\ pc' = "list"
              /\ UNCHANGED exit_code
    /\ UNCHANGED << folder, remote, i, total, uploaded, failed, not_deleted,
                    tmp, s3, dl, up, del, outcome, tmp_at_end >>
    /\ UNCHANGED avars

loop_pc(idx, n) == IF idx > n THEN "summary" ELSE "download"

\* lines 62-66: the uploader and the temp directory are made, the counters
\* start at zero and the loop is entered.
NewUploader ==
    /\ pc = "s3new"
    /\ \E r \in {"Ok", "Err"} :
         IF r = "Ok"
         THEN /\ total' = Len(files)
              /\ i' = 1
              /\ pc' = loop_pc(1, Len(files))
              /\ UNCHANGED exit_code
         ELSE /\ Abort
              /\ UNCHANGED << total, i >>
    /\ UNCHANGED << folder, remote, all_files, files, workspace, uploaded,
                    failed, not_deleted, tmp, s3, dl, up, del, outcome,
                    tmp_at_end >>
    /\ UNCHANGED avars

(***************************************************************************)
(* main.rs: the loop over the transferable files (lines 87-147).           *)
(***************************************************************************)
current_file_reversed(fs, idx) == fs[Len(fs) + 1 - idx]

\* line 87: files.iter().enumerate() visits the vector front to back; the file
\* of the idx-th iteration is its idx-th element.
current_file(fs, idx) == fs[idx]

remove_file(dir, path) == [dir EXCEPT ![path] = Absent]

continue_breaks(idx, n) == "summary"

\* `continue` in an error arm (lines 109, 125): on to the next file, or out
\* of the loop after the last one.
continue_pc(idx, n) == loop_pc(idx + 1, n)

\* The file's pipeline is over: its outcome and what is left at its
\* tmp_path are recorded, and the loop goes where `next` says.
EndOfFile(f, how, dir, next) ==
    /\ outcome' = [outcome EXCEPT ![f.id] = how]
    /\ tmp_at_end' = [tmp_at_end EXCEPT ![f.id] = dir[tmp_path(f)]]
    /\ i' = i + 1
    /\ pc' = next

\* lines 104-112: drive.download(file, &tmp_path, &dl_bar).await
Download ==
    /\ pc = "download"
    /\ \E o \in DownloadOutcomes :
         LET f == current_file(files, i)
             res == download_result(f, o)
             dir == [tmp EXCEPT ![tmp_path(f)] = download_dest(f, o, tmp[tmp_path(f)])]
         IN /\ dl' = [dl EXCEPT ![f.id] = [calls |-> @.calls + 1, kind |-> o.kind,
                                            bytes |-> o.bytes, result |-> res]]
            /\ tmp' = dir
            /\ IF res = "Err"
               THEN /\ failed' = failed + 1
                    /\ EndOfFile(f, "DownloadFailed", dir, continue_pc(i, total))
               ELSE /\ pc' = "upload"
                    /\ UNCHANGED << failed, outcome, tmp_at_end, i >>
    /\ UNCHANGED << exit_code, folder, remote, all_files, files, workspace,
                    total, uploaded, not_deleted, s3, up, del >>
    /\ UNCHANGED avars

upload_succeeded_always(res) == TRUE

\* line 119: the match on the upload's result.
upload_succeeded(res) == res = "Ok"

\* lines 119-128: s3.upload(&s3_key, &tmp_path).await
Upload ==
    /\ pc = "upload"
    /\ \E r \in {"Ok", "Err"} :
         LET f == current_file(files, i)
             res == upload_result(tmp[tmp_path(f)], r)
         IN /\ up' = [up EXCEPT ![f.id] = [calls |-> @.calls + 1, kind |-> "put",
                                            bytes |-> tmp[tmp_path(f)], result |-> res]]
            /\ s3' = upload_bucket(s3, s3_key(f), f, tmp[tmp_path(f)], res)
            /\ IF upload_succeeded(res)
               THEN /\ pc' = "delete"
                    /\ UNCHANGED << failed, tmp, outcome, tmp_at_end, i >>
               ELSE /\ failed' = failed + 1
                    /\ tmp' = remove_file(tmp, tmp_path(f))
                    /\ EndOfFile(f, "UploadFailed", remove_file(tmp, tmp_path(f)),
                              continue_pc(i, total))
    /\ UNCHANGED << exit_code, folder, remote, all_files, files, workspace,
                    total, uploaded, not_deleted, dl, del >>
    /\ UNCHANGED avars

delete_counts_as_failure(res, c) ==
    IF res = "Ok" THEN [c EXCEPT !.uploaded = @ + 1]
    ELSE [c EXCEPT !.failed = @ + 1, !.not_deleted = @ + 1]

delete_counters_skips_uploaded(res, c) ==
    IF res = "Ok" THEN [c EXCEPT !.uploaded = @ + 1]
    ELSE [c EXCEPT !.not_deleted = @ + 1]

\* lines 131-145: the counters c after the delete step answered res.
delete_counters(res, c) ==
    [c EXCEPT !.uploaded = @ + 1,
              !.not_deleted = IF res = "Err" THEN @ + 1 ELSE @]

\* lines 130-146: drive.delete(&file.id).await, then the local copy goes.
\* not_deleted (line 140) and uploaded (line 145) are locals of main that
\* nothing reads between the two increments: they change in this one step.
Delete ==
    /\ pc = "delete"
    /\ \E res \in {"Ok", "Err"} :
         LET f == current_file(files, i)
             c == delete_counters(res, [uploaded |-> uploaded, failed |-> failed,
                                        not_deleted |-> not_deleted])
         IN /\ del' = [del EXCEPT ![f.id] = [calls |-> @.calls + 1, kind |-> "delete",
                                              bytes |-> 0, result |-> res]]
            /\ remote' = IF res = "Ok" THEN remote \ {f.id} ELSE remote
            /\ uploaded' = c.uploaded
            /\ failed' = c.failed
            /\ not_deleted' = c.not_deleted
            /\ tmp' = remove_file(tmp, tmp_path(f))
            /\ EndOfFile(f, IF res = "Ok" THEN "Uploaded" ELSE "UploadedButNotDeleted",
                         remove_file(tmp, tmp_path(f)), loop_pc(i + 1, total))
    /\ UNCHANGED << exit_code, folder, all_files, files, workspace, total,
                    s3, dl, up >>
    /\ UNCHANGED avars

\* lines 149-158: the summary is printed and main returns Ok(()), whatever
\* the counters hold; the runtime turns Ok(()) into exit status 0.
exit_status(nfailed) == 0

Summary ==
    /\ pc = "summary"
    /\ pc' = "done"
    /\ exit_code' = exit_status(failed)
    /\ UNCHANGED << folder, remote, all_files, files, workspace, i, total,
                    uploaded, failed, not_deleted, tmp, s3, dl, up, del,
                    outcome, tmp_at_end >>
    /\ UNCHANGED avars

Next ==
    \/ Authenticate
    \/ FindFolder
    \/ ListPage
    \/ NewUploader
    \/ Download
    \/ Upload
    \/ Delete
    \/ Summary

Spec == Init /\ [][Next]_vars

(***************************************************************************)
(* auth.rs: load_or_authenticate, one action per await.  Every await takes *)
(* d seconds of the clock.                                                 *)
(***************************************************************************)
\* `?` on an Err, or bail!: the call returns Err.
Fail(stage, kind) ==
    /\ apc' = "failed"
    /\ result' = [result EXCEPT !.how = "Err", !.stage = stage, !.err = kind]

\* return Ok(t), t obtained through `via`.
Return(via) ==
    /\ apc' = "returned"
    /\ result' = [result EXCEPT !.how = "Ok", !.via = via]

\* lines 43-49: the persisted record is looked for, read, parsed and tested
\* for staleness; a stale one leads to load_creds and the refresh request.
LoadPersisted ==
    /\ apc = "start"
    /\ \E d \in Delays :
         /\ now' = now + d
         /\ IF token_file.kind \in {"none", "garbage"}
            THEN /\ apc' = "full_auth"
                 /\ UNCHANGED << token, result, hist >>
            ELSE IF token_file.kind = "unreadable"
            THEN /\ Fail("load", "TokenFileUnreadable")
                 /\ UNCHANGED << token, hist >>
            ELSE IF ~is_expired(token_file.token, now + d)
            THEN /\ token' = token_file.token
                 /\ Return("fresh")
                 /\ hist' = [hist EXCEPT !.checked_at = now + d]
            ELSE /\ token' = token_file.token
                 /\ hist' = [hist EXCEPT !.checked_at = now + d,
                                         !.creds_reads = @ + 1]
                 /\ IF load_creds(creds_file)
                    THEN apc' = "refresh" /\ UNCHANGED result
                    ELSE Fail("load", "CredentialsUnreadable")
    /\ UNCHANGED << token_file, token_tmp, creds_file, state, callback >>
    /\ UNCHANGED pvars

refresh_failure_is_fatal == "failed"

\* line 55: a failed refresh is reported and control falls out of the `if`
\* to full authentication.
refresh_failure_pc == "full_auth"

\* lines 50-56: do_refresh(http, &creds, &token).await
Refresh ==
    /\ apc = "refresh"
    /\ \E resp \in Responses, d \in Delays :
         LET r == do_refresh(resp, token, now + d)
         IN /\ now' = now + d
            /\ IF r.ok
               THEN /\ token' = r.token
                    /\ hist' = [hist EXCEPT !.refresh = "Ok", !.requests = @ + 1,
                                            !.resp = resp,
                                            !.issued_at = now + d,
                                            !.reported = resp.expires_in]
                    /\ result' = [result EXCEPT !.via = "refresh"]
                    /\ apc' = "save_write"
               ELSE /\ hist' = [hist EXCEPT !.refresh = r.err, !.requests = @ + 1,
                                            !.resp = resp]
                    /\ apc' = refresh_failure_pc
                    /\ UNCHANGED << token, result >>
    /\ UNCHANGED << token_file, token_tmp, creds_file, state, callback >>
    /\ UNCHANGED pvars

\* lines 60-61 and 75-98: load_creds, then browser_flow binds its listener,
\* generates the state and opens the browser.
FullAuth ==
    /\ apc = "full_auth"
    /\ hist' = [hist EXCEPT !.full_auth = @ + 1, !.creds_reads = @ + 1]
    /\ IF ~load_creds(creds_file)
       THEN /\ Fail("full_auth", "CredentialsUnreadable")
            /\ UNCHANGED state
       ELSE \E bind \in {"Ok", "Err"} :
              IF bind = "Err"
              THEN /\ Fail("full_auth", "Bind")
                   /\ UNCHANGED state
              ELSE /\ \E st \in States : state' = st
                   /\ apc' = "accept"
                   /\ UNCHANGED result
    /\ UNCHANGED << now, token_file, token_tmp, creds_file, token, callback >>
    /\ UNCHANGED pvars

\* lines 98-133: one connection is accepted, its request line is parsed,
\* the state is compared and the code extracted.
Accept ==
    /\ apc = "accept"
    /\ \E q \in Requests, d \in Delays :
         /\ now' = now + d
         /\ callback' = q
         /\ hist' = [hist EXCEPT !.accepts = @ + 1]
         /\ IF q.kind = "malformed"
            THEN Fail("full_auth", "MalformedRequest")
            ELSE IF state_mismatch(returned_state(q), state)
            THEN Fail("full_auth", "CsrfMismatch")
            ELSE IF q.code = "ABSENT"
            THEN Fail("full_auth", "MissingAuthorizationCode")
            ELSE apc' = "exchange" /\ UNCHANGED result
    /\ UNCHANGED << token_file, token_tmp, creds_file, token, state >>
    /\ UNCHANGED pvars

\* line 135: exchange_code(http, creds, &code, &redirect_uri).await
Exchange ==
    /\ apc = "exchange"
    /\ \E resp \in Responses, d \in Delays :
         LET r == exchange_code(resp, now + d)
         IN /\ now' = now + d
            /\ IF r.ok
               THEN /\ token' = r.token
                    /\ hist' = [hist EXCEPT !.exchanges = @ + 1, !.requests = @ + 1,
                                            !.resp = resp,
                                            !.issued_at = now + d,
                                            !.reported = resp.expires_in]
                    /\ result' = [result EXCEPT !.via = "browser"]
                    /\ apc' = "save_write"
               ELSE /\ hist' = [hist EXCEPT !.exchanges = @ + 1, !.requests = @ + 1,
                                            !.resp = resp]
                    /\ Fail("full_auth", r.err)
                    /\ UNCHANGED token
    /\ UNCHANGED << token_file, token_tmp, creds_file, state, callback >>
    /\ UNCHANGED pvars

\* save_token, line 201 and lines 205-206: the text handed to fs::write is the
\* whole serialized token; a write that fails or is cut short leaves a prefix.
PartialFile == [kind |-> "garbage", token |-> NoToken, mode |-> "default"]

\* fs::write creates or truncates the file at `path` and fills it.
write_file(path, content) ==
    IF path = "tmp"
    THEN token_tmp' = content /\ UNCHANGED token_file
    ELSE token_file' = content /\ UNCHANGED token_tmp

save_write_path_canonical == "canonical"

\* save_token, line 205: tmp_path = format!("{path}.tmp")
save_write_path == "tmp"

\* save_token, line 206: tokio::fs::write(&tmp_path, &json).  A failed
\* write leaves nothing or a partial file.
SaveWrite ==
    /\ apc = "save_write"
    /\ \E r \in {"Ok", "Err"}, d \in Delays :
         /\ now' = now + d
         /\ IF r = "Ok"
            THEN /\ write_file(save_write_path, TokenFile(token, "default"))
                 /\ apc' = "save_perms"
                 /\ UNCHANGED result
            ELSE /\ \E k \in {"none", "garbage"} :
                      IF k = "none" THEN UNCHANGED << token_file, token_tmp >>
                      ELSE write_file(save_write_path, PartialFile)
                 /\ Fail("save", "Write")
    /\ UNCHANGED << creds_file, token, state, callback, hist >>
    /\ UNCHANGED pvars

\* save_token, lines 209-214: set_permissions(&tmp_path, 0o600)
SavePerms ==
    /\ apc = "save_perms"
    /\ \E r \in {"Ok", "Err"}, d \in Delays :
         /\ now' = now + d
         /\ IF r = "Ok"
            THEN /\ token_tmp' = [token_tmp EXCEPT !.mode = "0600"]
                 /\ apc' = "save_rename"
                 /\ UNCHANGED result
            ELSE /\ Fail("save", "SetPermissions")
                 /\ UNCHANGED token_tmp
    /\ UNCHANGED << token_file, creds_file, token, state, callback, hist >>
    /\ UNCHANGED pvars

\* rename(2) replaces the destination in one step: the canonical path names
\* the old file or the new one.
rename_tmp ==
    /\ token_file' = token_tmp
    /\ token_tmp' = NoFile
    /\ hist' = [hist EXCEPT !.renames = @ + 1]

\* save_token, line 216: rename(&tmp_path, path); then lines 53 / 63:
\* return Ok(token).
SaveRename ==
    /\ apc = "save_rename"
    /\ \E r \in {"Ok", "Err"}, d \in Delays :
         /\ now' = now + d
         /\ IF r = "Ok"
            THEN /\ rename_tmp
                 /\ Return(result.via)
            ELSE /\ Fail("save", "Rename")
                 /\ UNCHANGED << token_file, token_tmp, hist >>
    /\ UNCHANGED << creds_file, token, state, callback >>
    /\ UNCHANGED pvars

\* The process is killed inside save_token (lines 200-218): before, during
\* or after the file-system call at which it stands.  A write cut short
\* leaves a prefix of the JSON text; set_permissions and rename either took
\* place or did not.
Interrupt ==
    /\ apc \in {"save_write", "save_perms", "save_rename"}
    /\ apc' = "killed"
    /\ \E progress \in {"before", "during", "after"} :
         CASE apc = "save_write" ->
                /\ IF progress = "before"
                   THEN UNCHANGED << token_file, token_tmp >>
                   ELSE write_file(save_write_path,
                                   IF progress = "during" THEN PartialFile
                                   ELSE TokenFile(token, "default"))
                /\ UNCHANGED hist
           [] apc = "save_perms" ->
                /\ token_tmp' = IF progress = "after"
                                THEN [token_tmp EXCEPT !.mode = "0600"]
                                ELSE token_tmp
                /\ UNCHANGED << token_file, hist >>
           [] apc = "save_rename" ->
                IF progress = "after"
                THEN rename_tmp
                ELSE UNCHANGED << token_file, token_tmp, hist >>
    /\ UNCHANGED << now, creds_file, token, state, callback, result >>
    /\ UNCHANGED pvars

AuthNext ==
    \/ LoadPersisted
    \/ Refresh
    \/ FullAuth
    \/ Accept
    \/ Exchange
    \/ SaveWrite
    \/ SavePerms
    \/ SaveRename
    \/ Interrupt

AuthInit ==
    /\ PipelineStart(<<>>)
    /\ \E tf \in TokenFiles, cf \in CredsFiles : AuthStart(tf, cf)

AuthSpec == AuthInit /\ [][AuthNext]_vars

(***************************************************************************)
(* Vocabulary of the properties.  The folder is the ground truth: entry k  *)
(* of the listing has id k.                                                *)
(***************************************************************************)
FolderIds == 1..Len(folder)

Native(k) == folder[k].mime_type \in WORKSPACE_MIMETYPES

TransferableIds == { k \in FolderIds : ~Native(k) }

Ended(k) == outcome[k] # "Pending"

InLoop == pc \in {"download", "upload", "delete", "summary", "done"}

\* Position of file id k in `files`, 0 when it is not there.
PosOf(k) ==
    IF \E j \in 1..Len(files) : files[j].id = k
    THEN CHOOSE j \in 1..Len(files) : files[j].id = k
    ELSE 0

(***************************************************************************)
(* C1.  Delete is invoked on a file if and only if the upload of that same *)
(* file returned success: a delete call implies a successful download and  *)
(* a successful upload of the file, and once a file's pipeline has ended,  *)
(* a successful upload implies that delete was called on it.               *)
(***************************************************************************)
DeleteIffUploadSucceeded ==
    \A k \in Ids :
        /\ del[k].calls > 0 => (up[k].result = "Ok" /\ dl[k].result = "Ok")
        /\ (Ended(k) \/ pc = "done") => (up[k].result = "Ok" <=> del[k].calls = 1)

DeleteIffUploadSucceeded_Witness ==
    /\ pc = "done"
    /\ \E k \in Ids : up[k].result = "Ok" /\ del[k].calls = 1
    /\ \E k \in Ids : up[k].result = "Err" /\ del[k].calls = 0

(***************************************************************************)
(* C2.  For a file whose reported size is N: when the download stream ends *)
(* after exactly N bytes the file proceeds to upload; when it ends after a *)
(* different number of bytes the download fails, the file ends as          *)
(* DownloadFailed, neither upload nor delete is called for it, and nothing *)
(* is left at its local path.                                              *)
(***************************************************************************)
SizeCheckedBeforeUpload ==
    \A k \in Ids :
        (k \in FolderIds /\ folder[k].size # NoSize /\ dl[k].kind = "eof") =>
            IF dl[k].bytes = folder[k].size
            THEN /\ dl[k].result = "Ok"
                 /\ up[k].calls = 1 \/ (pc = "upload" /\ files[i].id = k)
            ELSE /\ dl[k].result = "Err"
                 /\ outcome[k] = "DownloadFailed"
                 /\ failed >= 1
                 /\ up[k].calls = 0 /\ del[k].calls = 0
                 /\ tmp_at_end[k] = Absent

SizeCheckedBeforeUpload_Witness ==
    /\ \E k \in FolderIds :
         /\ folder[k].size # NoSize /\ dl[k].kind = "eof"
         /\ dl[k].bytes = folder[k].size /\ up[k].calls = 1
    /\ \E k \in FolderIds :
         /\ folder[k].size # NoSize /\ dl[k].kind = "eof"
         /\ dl[k].bytes # folder[k].size /\ outcome[k] = "DownloadFailed"

(***************************************************************************)
(* C3.  A download or upload failure never aborts the batch: the run is    *)
(* aborted only before any transfer; inside the loop every file before the *)
(* current one was downloaded exactly once and no later one was touched;   *)
(* failed counts exactly the files whose download or upload failed; a step *)
(* is always possible until the summary; and at the summary every          *)
(* transferable entry of the folder was attempted exactly once.            *)
(***************************************************************************)
FailedIds == { k \in Ids : dl[k].result = "Err" \/ up[k].result = "Err" }

FailureNeverAbortsBatch ==
    /\ pc = "aborted" => \A k \in Ids : dl[k].calls = 0
    /\ failed = Cardinality(FailedIds)
    /\ InLoop =>
         /\ \A j \in 1..Len(files) :
              /\ j < i => dl[files[j].id].calls = 1 /\ Ended(files[j].id)
              /\ j > i => dl[files[j].id].calls = 0
         /\ \A k \in Ids : dl[k].calls <= 1 /\ up[k].calls <= 1 /\ del[k].calls <= 1
    /\ pc \in {"download", "upload", "delete", "summary"} => ENABLED Next
    /\ pc = "done" =>
         /\ \A k \in TransferableIds : dl[k].calls = 1 /\ Ended(k)
         /\ total = Cardinality(TransferableIds)

FailureNeverAbortsBatch_Witness ==
    /\ pc = "done"
    /\ total = 2
    /\ dl[files[1].id].result = "Err"
    /\ up[files[2].id].result = "Err"
    /\ failed = 2

(***************************************************************************)
(* C4.  A delete that fails after a successful upload is a soft warning:   *)
(* the file counts in uploaded, not_deleted counts exactly the files whose *)
(* delete failed, failed does not count them, and the loop has moved on    *)
(* past the file.                                                          *)
(***************************************************************************)
NotDeletedIds == { k \in Ids : del[k].result = "Err" }

DeleteFailureIsSoft ==
    /\ not_deleted = Cardinality(NotDeletedIds)
    /\ uploaded = Cardinality({ k \in Ids : del[k].calls > 0 })
    /\ failed = Cardinality(FailedIds)
    /\ \A k \in NotDeletedIds :
         /\ outcome[k] = "UploadedButNotDeleted"
         /\ up[k].result = "Ok"
         /\ k \notin FailedIds
         /\ InLoop /\ PosOf(k) > 0 /\ i > PosOf(k)
         /\ k \in remote

DeleteFailureIsSoft_Witness ==
    /\ pc = "done"
    /\ total = 2
    /\ del[files[1].id].result = "Err"
    /\ dl[files[2].id].calls = 1
    /\ uploaded >= 1 /\ not_deleted = 1 /\ failed = 0

(***************************************************************************)
(* C5.  Entries of a native-document kind are never downloaded, uploaded   *)
(* or deleted, stay on Drive, and are not counted in total: total is the   *)
(* number of transferable entries of the listing.  Every kind of the fixed *)
(* list is recognised.                                                     *)
(***************************************************************************)
NativeEntriesSkipped ==
    /\ \A m \in WORKSPACE_MIMETYPES :
         is_workspace_file([id |-> 1, name |-> <<"a">>, mime_type |-> m, size |-> NoSize])
    /\ \A k \in FolderIds :
         Native(k) =>
            /\ dl[k].calls = 0 /\ up[k].calls = 0 /\ del[k].calls = 0
            /\ k \in remote
            /\ PosOf(k) = 0
    /\ InLoop => total = Cardinality(TransferableIds)

NativeEntriesSkipped_Witness ==
    /\ pc = "done"
    /\ \E k \in FolderIds : Native(k)
    /\ \E k \in FolderIds : ~Native(k) /\ del[k].result = "Ok"
    /\ total = 1

(***************************************************************************)
(* C6.  The exit status is derived from the failed counter: a run that     *)
(* reaches the summary exits non-zero exactly when failed > 0.             *)
(***************************************************************************)
ExitStatusFromFailed ==
    pc = "done" => (exit_code # 0 <=> failed > 0)

(***************************************************************************)
(* C7.  When a file's pipeline has ended, whichever way, nothing is left   *)
(* at its local temporary path.                                            *)
(***************************************************************************)
TmpRemovedAfterEachFile ==
    \A k \in Ids : Ended(k) => tmp_at_end[k] = Absent

(***************************************************************************)
(* Vocabulary of the properties of load_or_authenticate.                   *)
(***************************************************************************)
\* now >= expiry - 60 s
Stale(t, clock) == clock >= t.expiry - 60

\* The lifetime the provider granted: the reported expires_in, 3600 s when
\* it reported none.
GrantedLifetime == IF hist.reported = NoExpiresIn THEN 3600 ELSE hist.reported

RefreshFailed == hist.refresh \notin {"none", "Ok"}

(***************************************************************************)
(* C8.  A redirect whose state parameter differs from the state generated  *)
(* for the attempt (empty and absent included) is rejected: the call fails *)
(* with the CSRF error, the code is never exchanged, nothing is persisted, *)
(* and the browser flow is not run a second time.                          *)
(***************************************************************************)
CsrfMismatchRejected ==
    (callback.kind = "get" /\ callback.state # state) =>
        /\ apc = "failed"
        /\ result.how = "Err" /\ result.err = "CsrfMismatch"
        /\ hist.exchanges = 0
        /\ token_file = hist.token_file0 /\ token_tmp = NoFile /\ hist.renames = 0
        /\ hist.full_auth = 1 /\ hist.accepts = 1

CsrfMismatchRejected_Witness ==
    /\ callback.kind = "get"
    /\ callback.state = "ABSENT"
    /\ callback.code = "code-1"
    /\ RefreshFailed
    /\ apc = "failed"

(***************************************************************************)
(* C9 as claimed.  Every successful return hands out a credential that is  *)
(* not stale at the moment of return.                                      *)
(***************************************************************************)
ReturnedCredentialNotStale ==
    apc = "returned" => ~Stale(token, now)

(***************************************************************************)
(* C9 as amended.  A persisted record is returned only when it is not      *)
(* stale.  A refreshed or newly acquired credential is returned unchecked  *)
(* with expiry = issuance time + granted lifetime, so it is not stale at   *)
(* the moment of return exactly when the granted lifetime exceeds 60 s     *)
(* plus the time elapsed since issuance.                                   *)
(***************************************************************************)
ReturnedCredentialNotStaleIfLifetimeAllows ==
    apc = "returned" =>
        /\ result.via \in {"fresh", "refresh", "browser"}
        /\ result.via = "fresh" =>
             /\ token = hist.token_file0.token
             /\ ~Stale(token, now)
        /\ result.via \in {"refresh", "browser"} =>
             /\ token.expiry = hist.issued_at + GrantedLifetime
             /\ ~Stale(token, now) <=> GrantedLifetime - (now - hist.issued_at) > 60

ReturnedCredentialNotStaleIfLifetimeAllows_Witness ==
    /\ apc = "returned"
    /\ result.via = "refresh"
    /\ hist.reported = NoExpiresIn
    /\ now > hist.issued_at
    /\ ~Stale(token, now)

(***************************************************************************)
(* C10.  A failed refresh (network error, provider error, missing field)   *)
(* is never fatal: control goes on to full authentication, the call never  *)
(* fails before entering it, and a successful return after it hands out    *)
(* the credential of the browser flow.                                     *)
(***************************************************************************)
RefreshFailureFallsThrough ==
    RefreshFailed =>
        /\ hist.refresh \in {"Network", "TokenError", "MissingAccessToken"}
        /\ apc = "full_auth" \/ hist.full_auth = 1
        /\ apc = "failed" => result.stage \in {"full_auth", "save"}
        /\ apc = "returned" =>
             /\ result.via = "browser" /\ hist.exchanges = 1
             /\ token.access_token = "at1" /\ token_file.token = token

RefreshFailureFallsThrough_Witness ==
    /\ hist.refresh = "MissingAccessToken"
    /\ apc = "returned"
    /\ result.via = "browser"

(***************************************************************************)
(* C11.  When there is no persisted record, or there is one that cannot be *)
(* read or does not parse, the call goes to full browser authentication    *)
(* instead of returning an error, and no refresh is attempted.             *)
(***************************************************************************)
UnusableRecordLeadsToFullAuth ==
    (hist.token_file0.kind \in {"none", "unreadable", "garbage"} /\ apc # "start") =>
        /\ hist.refresh = "none"
        /\ apc = "full_auth" \/ hist.full_auth = 1

(***************************************************************************)
(* C12.  When the persisted record parses and is not stale at the moment   *)
(* it is tested, the call returns exactly that record, sends no request,   *)
(* does not read the application credentials and does not write the        *)
(* record or its temporary file.                                           *)
(***************************************************************************)
PersistedRecordFresh ==
    /\ hist.token_file0.kind = "token"
    /\ apc # "start"
    /\ hist.checked_at < hist.token_file0.token.expiry - 60

FreshRecordReturnedUntouched ==
    PersistedRecordFresh =>
        /\ apc = "returned" /\ result.how = "Ok" /\ result.via = "fresh"
        /\ token = hist.token_file0.token
        /\ hist.requests = 0 /\ hist.refresh = "none"
        /\ hist.exchanges = 0 /\ hist.full_auth = 0 /\ hist.accepts = 0
        /\ hist.creds_reads = 0
        /\ token_file = hist.token_file0 /\ token_tmp = NoFile /\ hist.renames = 0

FreshRecordReturnedUntouched_Witness ==
    /\ PersistedRecordFresh
    /\ hist.token_file0.token.expiry = 61
    /\ creds_file = "unreadable"
    /\ apc = "returned"

(***************************************************************************)
(* C13.  Whenever save_token stops, between or inside its steps, the       *)
(* canonical path holds the record it held before the call or the whole    *)
(* new record, never a prefix of it, and is never open to non-owners.      *)
(***************************************************************************)
CanonicalIsPrevious == token_file = hist.token_file0

CanonicalIsNew ==
    /\ token_file.kind = "token"
    /\ token_file.token = token
    /\ token # hist.token_file0.token

SaveIsAtomicAndPrivate ==
    /\ CanonicalIsPrevious \/ CanonicalIsNew
    /\ token_file.mode \in {"none", "0600"}

SaveIsAtomicAndPrivate_Witness ==
    /\ apc = "killed"
    /\ hist.token_file0.kind = "token"
    /\ CanonicalIsPrevious
    /\ token_tmp.kind = "garbage"

(***************************************************************************)
(* C14.  The canonical record changes only when a refresh or a code        *)
(* exchange has succeeded: a call that ends in an error, at whatever       *)
(* stage, leaves the canonical record as it was when the call began.       *)
(***************************************************************************)
EndpointGranted ==
    /\ hist.resp.kind = "json"
    /\ hist.resp.error = "NONE"
    /\ hist.resp.access_token # "NONE"

RecordMutatedOnlyBySuccess ==
    /\ apc = "failed" => token_file = hist.token_file0
    /\ token_file # hist.token_file0 =>
          /\ EndpointGranted
          /\ hist.refresh = "Ok" \/ hist.exchanges = 1
          /\ token_file.kind = "token" /\ token_file.token = token

RecordMutatedOnlyBySuccess_Witness ==
    /\ apc = "failed"
    /\ hist.token_file0.kind = "token"
    /\ hist.refresh \notin {"none", "Ok"}
    /\ hist.exchanges = 1
    /\ result.stage = "full_auth"
    /\ token_file = hist.token_file0

(***************************************************************************)
(* C15.  A granted refresh whose response has no refresh_token yields a    *)
(* token carrying the stored refresh token; a code exchange whose response *)
(* is otherwise complete but has no refresh_token fails for the missing    *)
(* field; a response that has a refresh_token yields a token carrying it.  *)
(***************************************************************************)
RefreshGranted == hist.refresh = "Ok"

ExchangeAnswered == hist.exchanges = 1

ExchangeGranted == ExchangeAnswered /\ apc # "failed"

RefreshTokenCarriedOrReplaced ==
    /\ RefreshGranted =>
          token.refresh_token =
             IF hist.resp.refresh_token = "NONE"
             THEN hist.token_file0.token.refresh_token
             ELSE hist.resp.refresh_token
    /\ (ExchangeAnswered /\ EndpointGranted /\ hist.resp.refresh_token = "NONE") =>
          /\ apc = "failed"
          /\ result.err = "MissingRefreshToken"
    /\ ExchangeGranted =>
          /\ hist.resp.refresh_token # "NONE"
          /\ token.refresh_token = hist.resp.refresh_token

RefreshTokenCarriedOrReplaced_Witness ==
    /\ RefreshGranted
    /\ hist.resp.refresh_token = "NONE"
    /\ token.refresh_token = "rt0"
    /\ token.access_token = "at1"
    /\ apc = "returned"

(***************************************************************************)
(* C16.  For every record and every clock value, is_expired answers true   *)
(* exactly when the clock has reached the expiry minus 60 seconds: over a  *)
(* grid of expiries and clocks around the margin, at the test of the       *)
(* persisted record, and for a token issued with a reported lifetime of    *)
(* more than 60 seconds, which is not stale at its instant of issuance.    *)
(***************************************************************************)
ExpiryGrid == {0 - 100, 0, 60, 61, 62, 3600}

ClockGrid == {0, 1, 2, 3539, 3540, 3541}

RecordExpiringAt(e) == [access_token |-> "at0", refresh_token |-> "rt0", expiry |-> e]

TakenAsFresh == apc = "returned" /\ result.via = "fresh"

Issued == result.via \in {"refresh", "browser"}

StaleIffWithinMargin ==
    /\ \A e \in ExpiryGrid, c \in ClockGrid :
          is_expired(RecordExpiringAt(e), c) <=> (c >= e - 60)
    /\ (hist.token_file0.kind = "token" /\ apc # "start") =>
          (TakenAsFresh <=> hist.checked_at < hist.token_file0.token.expiry - 60)
    /\ (Issued /\ hist.reported > 60) =>
          /\ token.expiry - hist.issued_at > 60
          /\ ~is_expired(token, hist.issued_at)

StaleIffWithinMargin_Witness ==
    /\ hist.token_file0.kind = "token"
    /\ hist.token_file0.token.expiry = 60
    /\ hist.checked_at = 0
    /\ Issued
    /\ hist.reported = 61
    /\ ~is_expired(token, hist.issued_at)
    /\ apc = "returned"

(***************************************************************************)
(* C17.  The sanitized name has no '/', no '\' and no null character: each *)
(* of them is replaced by '_' and every other character is kept; the local *)
(* path and the storage key of every file are built from it.  Two files    *)
(* whose sanitized names are equal are both taken through download, upload *)
(* and delete like any other file, and the run reaches its summary.        *)
(***************************************************************************)
Unsafe == {"/", "\\", "NUL"}

NameChars == {"a", ".", "_", "/", "\\", "NUL"}

NameGrid == UNION { [1..n -> NameChars] : n \in 0..2 }

Sanitized(n) == [k \in 1..Len(n) |-> IF n[k] \in Unsafe THEN "_" ELSE n[k]]

Collide(j, k) ==
    /\ j < k /\ ~Native(j) /\ ~Native(k)
    /\ Sanitized(folder[j].name) = Sanitized(folder[k].name)

Stepped(k) ==
    /\ dl[k].calls = 1
    /\ up[k].calls = (IF dl[k].result = "Ok" THEN 1 ELSE 0)
    /\ del[k].calls = (IF up[k].result = "Ok" THEN 1 ELSE 0)

\* The first conjunct is about the function alone and does not depend on the
\* state: it is evaluated where every run starts.
SanitizedNamesAndCollisions ==
    /\ pc = "auth" =>
          \A n \in NameGrid :
             /\ safe_name(n) = Sanitized(n)
             /\ \A k \in 1..Len(n) : safe_name(n)[k] \notin Unsafe
    /\ \A k \in FolderIds :
          /\ tmp_path(folder[k]) = Sanitized(folder[k].name)
          /\ s3_key(folder[k]) = Sanitized(folder[k].name)
    /\ \A key \in DOMAIN s3 :
          s3[key] # NoObject =>
             /\ \A c \in 1..Len(key) : key[c] \notin Unsafe
             /\ key = Sanitized(folder[s3[key].id].name)
    /\ \A j \in FolderIds, k \in FolderIds :
          Collide(j, k) =>
             /\ (dl[j].calls > 0 \/ dl[k].calls > 0) => pc # "aborted"
             /\ (Ended(j) /\ Ended(k)) => (Stepped(j) /\ Stepped(k))
             /\ pc = "done" => (Ended(j) /\ Ended(k))

SanitizedNamesAndCollisions_Witness ==
    /\ pc = "done"
    /\ Len(folder) = 2
    /\ Collide(1, 2)
    /\ folder[1].name = <<"/">> /\ folder[2].name = <<"_">>
    /\ outcome[1] = "Uploaded" /\ outcome[2] = "Uploaded"
    /\ del[1].result = "Ok" /\ del[2].result = "Ok"

(***************************************************************************)
(* C18.  Files are processed one at a time in listing order.  Within a     *)
(* file an upload is called only after its download succeeded and a delete *)
(* only after its upload succeeded; no step of a file has started unless   *)
(* every file listed before it has reached a terminal state; and the only  *)
(* terminal states are download failed, upload failed, uploaded but not    *)
(* deleted, and uploaded.                                                  *)
(***************************************************************************)
Started(k) == dl[k].calls > 0 \/ up[k].calls > 0 \/ del[k].calls > 0

\* The k-th entry of the folder's listing is the file of id k.
ListedBefore(j, k) == j < k /\ folder[j].id = j /\ folder[k].id = k

TerminalStates == {"DownloadFailed", "UploadFailed", "UploadedButNotDeleted", "Uploaded"}

OneAtATimeInListingOrder ==
    /\ \A k \in Ids :
          /\ up[k].calls > 0 => dl[k].result = "Ok"
          /\ del[k].calls > 0 => up[k].result = "Ok"
          /\ outcome[k] \in TerminalStates \cup {"Pending"}
          /\ outcome[k] = "DownloadFailed" <=> dl[k].result = "Err"
          /\ outcome[k] = "UploadFailed" <=> up[k].result = "Err"
          /\ outcome[k] = "UploadedButNotDeleted" <=> del[k].result = "Err"
          /\ outcome[k] = "Uploaded" <=> del[k].result = "Ok"
    /\ \A j \in FolderIds, k \in FolderIds :
          (~Native(j) /\ ~Native(k) /\ ListedBefore(j, k) /\ Started(k)) => Ended(j)
    /\ Cardinality({ k \in Ids : Started(k) /\ ~Ended(k) }) <= 1

OneAtATimeInListingOrder_Witness ==
    /\ pc = "upload"
    /\ Len(files) = 2 /\ i = 2
    /\ outcome[files[1].id] = "UploadedButNotDeleted"
    /\ Started(files[2].id) /\ ~Ended(files[2].id)

(***************************************************************************)
(* C19.  No download, upload or delete is performed before authentication, *)
(* folder lookup, the whole paginated listing and the construction of the  *)
(* uploader have succeeded: once a transfer step has run, the listing held *)
(* is the whole folder, taken before the first step and unchanged since,   *)
(* and the files processed are its transferable entries in order.  A run   *)
(* ended by a failure of one of those stages has touched no remote file    *)
(* and stored no object.                                                   *)
(***************************************************************************)
Untouched ==
    /\ \A k \in Ids : ~Started(k)
    /\ remote = FolderIds
    /\ \A key \in DOMAIN s3 : s3[key] = NoObject

PreLoop == pc \in {"auth", "find_folder", "list", "s3new"}

TransferableInOrder(fs) ==
    /\ Len(fs) = Cardinality(TransferableIds)
    /\ \A a \in 1..Len(fs) : fs[a] = folder[fs[a].id] /\ fs[a].id \in TransferableIds
    /\ \A a \in 1..Len(fs), b \in 1..Len(fs) : a < b => fs[a].id < fs[b].id

NoTransferBeforeSetup ==
    /\ PreLoop => Untouched
    /\ pc = "aborted" => (Untouched /\ exit_code = 1)
    /\ ~Untouched => InLoop
    /\ InLoop =>
          /\ all_files = folder
          /\ TransferableInOrder(files)
          /\ total = Len(files)

NoTransferBeforeSetup_Witness ==
    /\ pc = "aborted"
    /\ Len(folder) = 2
    /\ Len(all_files) = 1
    /\ Untouched

(***************************************************************************)
(* C20.  At the end of a run, every file whose remote copy was deleted has *)
(* its bytes in the object store under some key, files of equal name or of *)
(* equal sanitized name included.                                          *)
(***************************************************************************)
DeletedIds == FolderIds \ remote

Held(k) == \E key \in DOMAIN s3 : s3[key].id = k /\ s3[key].bytes = up[k].bytes

SourceDataNeverLost ==
    pc = "done" => \A k \in DeletedIds : Held(k)

(***************************************************************************)
(* C21.  The run counters are consistent after every step: no counter ever *)
(* decreases; a file that ends its pipeline adds one to exactly one of     *)
(* uploaded and failed, and nothing else changes them; so with k files     *)
(* ended uploaded + failed = k, at the end uploaded + failed = total, and  *)
(* not_deleted never exceeds uploaded.                                     *)
(***************************************************************************)
FilesEnded == Cardinality({ k \in Ids : Ended(k) })

CountersAddUp ==
    /\ uploaded + failed = FilesEnded
    /\ pc \in {"summary", "done"} => uploaded + failed = total
    /\ not_deleted <= uploaded
    /\ uploaded >= 0 /\ failed >= 0 /\ not_deleted >= 0

CountersStep ==
    /\ uploaded' >= uploaded /\ failed' >= failed /\ not_deleted' >= not_deleted
    /\ IF FilesEnded' = FilesEnded + 1
       THEN \/ uploaded' = uploaded + 1 /\ failed' = failed
            \/ uploaded' = uploaded /\ failed' = failed + 1
       ELSE /\ FilesEnded' = FilesEnded
            /\ uploaded' = uploaded /\ failed' = failed /\ not_deleted' = not_deleted

====
